---------------------------- MODULE Spec2Model ----------------------------
(***************************************************************************)
(* ResultCard (CouncilSearcher front end): the highlightedSnippet computed *)
(* property and the downloadTranscript method of the result card.          *)
(*                                                                         *)
(* Strings are sequences of one-character strings.  A Blob is a sequence   *)
(* of bytes.  The HTML that highlightedSnippet produces is a sequence of   *)
(* characters and markup tokens.                                           *)
(***************************************************************************)
EXTENDS Integers, Sequences, FiniteSets, TLC

VARIABLES
    result,      \* the `result` prop: the bound SearchResult
    tz,          \* the host's local time zone, hours east of UTC
    rendered,    \* what v-html="highlightedSnippet" last rendered
    inv,         \* the downloadTranscript invocations, in click order
    requests,    \* the axios.get requests issued, in order
    objectURLs,  \* the object URLs created, in order: blob and revocations
    body,        \* the anchors attached to document.body (by invocation)
    saves,       \* the file saves the browser was asked for, in order
    alerts,      \* the alert() dialogs raised, in order (by invocation)
    logs,        \* the console.error calls, in order (by invocation)
    uncaught     \* the invocations whose promise rejected

vars == <<result, tz, rendered, inv, requests, objectURLs, body, saves,
          alerts, logs, uncaught>>

----------------------------------------------------------------------------
(* Bounds of the model *)

\* clicks on "Download Transcript" in one behaviour
MaxClicks == 2
\* length of the enumerated snippets
MaxSnippetLen == 4
\* length of the enumerated titles
MaxTitleLen == 4

----------------------------------------------------------------------------
(* Characters and strings *)

Lower == {"a", "b", "c", "d", "e", "f", "g", "h", "i", "j", "k", "l", "m",
          "n", "o", "p", "q", "r", "s", "t", "u", "v", "w", "x", "y", "z"}
Upper == {"A", "B", "C", "D", "E", "F", "G", "H", "I", "J", "K", "L", "M",
          "N", "O", "P", "Q", "R", "S", "T", "U", "V", "W", "X", "Y", "Z"}
DigitChars == <<"0", "1", "2", "3", "4", "5", "6", "7", "8", "9">>
Digits == {DigitChars[i] : i \in 1..10}

\* what \s matches and what String.prototype.trim strips, among the
\* characters the model uses
WhiteSpace == {" ", "\t", "\n"}
\* what . does not match in a regular expression without the s flag
LineTerminators == {"\n"}

\* [a-zA-Z0-9\s]
IsKept(c) == c \in Lower \/ c \in Upper \/ c \in Digits \/ c \in WhiteSpace

\* String.prototype.toUpperCase on one character
toUpperCase(c) ==
    CASE c = "a" -> "A" [] c = "b" -> "B" [] c = "c" -> "C" [] c = "d" -> "D"
      [] c = "e" -> "E" [] c = "f" -> "F" [] c = "g" -> "G" [] c = "h" -> "H"
      [] c = "i" -> "I" [] c = "j" -> "J" [] c = "k" -> "K" [] c = "l" -> "L"
      [] c = "m" -> "M" [] c = "n" -> "N" [] c = "o" -> "O" [] c = "p" -> "P"
      [] c = "q" -> "Q" [] c = "r" -> "R" [] c = "s" -> "S" [] c = "t" -> "T"
      [] c = "u" -> "U" [] c = "v" -> "V" [] c = "w" -> "W" [] c = "x" -> "X"
      [] c = "y" -> "Y" [] c = "z" -> "Z" [] OTHER -> c

Min(a, b) == IF a <= b THEN a ELSE b

\* the strings over `chars` of length at most n
StringsUpTo(chars, n) == UNION {[1..k -> chars] : k \in 0..n}

RECURSIVE Join(_)
\* Array.prototype.join('')
Join(parts) ==
    IF parts = <<>> THEN <<>> ELSE Head(parts) \o Join(Tail(parts))

\* Array.prototype.slice(0, n)
Slice0(parts, n) == SubSeq(parts, 1, Min(n, Len(parts)))

----------------------------------------------------------------------------
(* highlightedSnippet: snippet.replace(/\[(.*?)\]/g, '<span ...>$1</span>') *)

SpanOpen == "<span class=\"highlight\">"
SpanClose == "</span>"

\* the index of the first "]" after position i that the lazy (.*?) can
\* reach: it stops at a line terminator, which . does not match; 0 if none
RECURSIVE ClosingBracket(_, _)
ClosingBracket(s, j) ==
    IF j > Len(s) THEN 0
    ELSE IF s[j] = "]" THEN j
    ELSE IF s[j] \in LineTerminators THEN 0
    ELSE ClosingBracket(s, j + 1)

\* the global replace from position i on: one left-to-right pass, the
\* search resuming after each match, the replacement never scanned again
RECURSIVE ReplaceFrom(_, _)
ReplaceFrom(s, i) ==
    IF i > Len(s) THEN <<>>
    ELSE IF s[i] = "[" /\ ClosingBracket(s, i + 1) # 0
    THEN LET j == ClosingBracket(s, i + 1)
         IN  <<SpanOpen>> \o SubSeq(s, i + 1, j - 1) \o <<SpanClose>>
               \o ReplaceFrom(s, j + 1)
    ELSE <<s[i]>> \o ReplaceFrom(s, i + 1)

highlightedSnippet(snippet) == ReplaceFrom(snippet, 1)

----------------------------------------------------------------------------
(* The title segment of the file name *)

\* title.replace(/[^a-zA-Z0-9\s]/g, '')
Sanitize(t) == SelectSeq(t, IsKept)

RECURSIVE TrimStart(_)
TrimStart(t) ==
    IF t # <<>> /\ Head(t) \in WhiteSpace THEN TrimStart(Tail(t)) ELSE t

RECURSIVE TrimEnd(_)
TrimEnd(t) ==
    IF t # <<>> /\ t[Len(t)] \in WhiteSpace
    THEN TrimEnd(SubSeq(t, 1, Len(t) - 1)) ELSE t

\* String.prototype.trim
Trim(t) == TrimEnd(TrimStart(t))

\* String.prototype.split(' '): cuts at every single space character and
\* at nothing else; two adjacent spaces give an empty part, '' gives ['']
RECURSIVE SplitFrom(_, _, _)
SplitFrom(t, i, cur) ==
    IF i > Len(t) THEN <<cur>>
    ELSE IF t[i] = " " THEN <<cur>> \o SplitFrom(t, i + 1, <<>>)
    ELSE SplitFrom(t, i + 1, Append(cur, t[i]))

Split(t) == SplitFrom(t, 1, <<>>)

\* line 70: let title = ... .trim().split(' ').slice(0, 3).join('')
ShortTitle(t) == Join(Slice0(Split(Trim(Sanitize(t))), 3))

----------------------------------------------------------------------------
(* The authority segment of the file name *)

\* line 69: authority.charAt(0).toUpperCase() + authority.slice(1)
Capitalize(a) ==
    IF a = <<>> THEN <<>> ELSE <<toUpperCase(Head(a))>> \o Tail(a)

----------------------------------------------------------------------------
(* The date segment of the file name.  A datetime string is one of         *)
(*   kind "utc"     YYYY-MM-DDTHH:00:00Z   an instant given in UTC         *)
(*   kind "local"   YYYY-MM-DDTHH:00:00    a local time of the host        *)
(*   kind "date"    YYYY-MM-DD             midnight UTC of that day        *)
(*   kind "invalid" a string Date cannot parse                             *)
(* and a time value is a number of hours since 1970-01-01T00:00Z, or NaN.  *)

\* a JavaScript number: an integer, or NaN
NaN == [nan |-> TRUE]
Num(k) == [nan |-> FALSE, n |-> k]
isNaN(x) == x.nan

\* days from 1970-01-01 to the civil date y-m-d (proleptic Gregorian)
DaysFromCivil(y, m, d) ==
    LET yy  == IF m <= 2 THEN y - 1 ELSE y
        era == yy \div 400
        yoe == yy - era * 400
        mp  == (m + 9) % 12
        doy == (153 * mp + 2) \div 5 + d - 1
        doe == yoe * 365 + yoe \div 4 - yoe \div 100 + doy
    IN  era * 146097 + doe - 719468

\* the civil date of day number z
CivilFromDays(z) ==
    LET zz  == z + 719468
        era == zz \div 146097
        doe == zz - era * 146097
        yoe == (doe - doe \div 1460 + doe \div 36524 - doe \div 146096) \div 365
        doy == doe - (365 * yoe + yoe \div 4 - yoe \div 100)
        mp  == (5 * doy + 2) \div 153
        d   == doy - (153 * mp + 2) \div 5 + 1
        m   == IF mp < 10 THEN mp + 3 ELSE mp - 9
        y   == yoe + era * 400 + (IF m <= 2 THEN 1 ELSE 0)
    IN  [y |-> y, m |-> m, d |-> d]

\* line 73: new Date(datetime), in a host `zone` hours east of UTC: the
\* time value of the Date
DateParse(dt, zone) ==
    CASE dt.kind = "utc"   -> Num(DaysFromCivil(dt.y, dt.m, dt.d) * 24 + dt.hh)
      [] dt.kind = "local" ->
           Num(DaysFromCivil(dt.y, dt.m, dt.d) * 24 + dt.hh - zone)
      [] dt.kind = "date"  -> Num(DaysFromCivil(dt.y, dt.m, dt.d) * 24)
      [] OTHER             -> NaN

\* the local calendar fields of a time value
LocalCivil(t, zone) == CivilFromDays((t.n + zone) \div 24)

\* Date.prototype.getDate: the local day of the month, 1..31
getDate(t, zone) == IF isNaN(t) THEN NaN ELSE Num(LocalCivil(t, zone).d)
\* Date.prototype.getMonth: the local month, 0..11
getMonth(t, zone) == IF isNaN(t) THEN NaN ELSE Num(LocalCivil(t, zone).m - 1)
\* Date.prototype.getFullYear: the local year
getFullYear(t, zone) == IF isNaN(t) THEN NaN ELSE Num(LocalCivil(t, zone).y)

\* x + 1: NaN + 1 is NaN
PlusOne(x) == IF isNaN(x) THEN NaN ELSE Num(x.n + 1)

RECURSIVE DecimalDigits(_)
DecimalDigits(n) ==
    IF n < 10 THEN <<DigitChars[n + 1]>>
    ELSE Append(DecimalDigits(n \div 10), DigitChars[(n % 10) + 1])

\* String(x) of a number
String(x) ==
    IF isNaN(x) THEN <<"N", "a", "N">>
    ELSE IF x.n < 0 THEN <<"-">> \o DecimalDigits(-x.n)
    ELSE DecimalDigits(x.n)

RECURSIVE padStart(_, _, _)
\* String.prototype.padStart(width, pad) with a one-character pad
padStart(s, width, pad) ==
    IF Len(s) >= width THEN s ELSE padStart(<<pad>> \o s, width, pad)

\* a faulty variant of MonthStr: the zero-based month, without the + 1
MonthStrZeroBased(t, zone) == padStart(String(getMonth(t, zone)), 2, "0")

\* line 75: String(date.getMonth() + 1).padStart(2, '0')
MonthStr(t, zone) == padStart(String(PlusOne(getMonth(t, zone))), 2, "0")
\* line 74: String(date.getDate()).padStart(2, '0')
DayStr(t, zone) == padStart(String(getDate(t, zone)), 2, "0")
\* line 76: String(date.getFullYear())
YearStr(t, zone) == String(getFullYear(t, zone))

\* lines 73-77: date_str
DateStr(dt, zone) ==
    LET date == DateParse(dt, zone)
    IN  YearStr(date, zone) \o <<"-">> \o MonthStr(date, zone)
          \o <<"-">> \o DayStr(date, zone)

\* `${authority}-${title}-[${date_str}].txt`
Template(authority, title, date_str) ==
    authority \o <<"-">> \o title \o <<"-", "[">> \o date_str
      \o <<"]", ".", "t", "x", "t">>

\* lines 69-79: filename
Filename(r, zone) ==
    Template(Capitalize(r.authority), ShortTitle(r.title),
             DateStr(r.datetime, zone))

----------------------------------------------------------------------------
(* downloadTranscript *)

\* `${API_BASE}/meetings/download_transcript/${this.result.uid}`
Endpoint(uid) == <<"API_BASE", "/meetings/download_transcript/", uid>>

\* new Blob(parts): the parts' bytes, concatenated in order
Blob(parts) == Join(parts)

\* what a click on an anchor whose object URL was already revoked saves
Unavailable == <<"unavailable">>

\* a faulty variant of DownloadSteps: the URL is revoked before the click
DownloadStepsRevokeFirst ==
    <<"createObjectURL", "appendChild", "revokeObjectURL", "click", "remove">>

\* lines 81-88 in source order: the browser calls made after the file name
\* is built
DownloadSteps ==
    <<"createObjectURL", "appendChild", "click", "remove", "revokeObjectURL">>

\* the ways the synchronous part can go: no call throws, or one of them does
Faults == {"none"} \cup {DownloadSteps[k] : k \in 1..Len(DownloadSteps)}

\* one browser call made by invocation i on the browser state st =
\* [urls, body, saves, url, trace]: `data` is response.data, `name` the
\* file name
Call(st, step, i, data, name) ==
    LET t == [st EXCEPT !.trace = Append(@, step)]
    IN  CASE step = "createObjectURL" ->
               [t EXCEPT !.urls = Append(@, [by |-> i,
                                             blob |-> Blob(<<data>>),
                                             revoked |-> 0]),
                         !.url = Len(st.urls) + 1]
          [] step = "appendChild" -> [t EXCEPT !.body = @ \cup {i}]
          [] step = "click" ->
               [t EXCEPT !.saves = Append(@,
                   [by |-> i, download |-> name, href |-> st.url,
                    bytes |-> IF st.url # 0 /\ st.urls[st.url].revoked = 0
                              THEN st.urls[st.url].blob ELSE Unavailable])]
          [] step = "remove" -> [t EXCEPT !.body = @ \ {i}]
          [] step = "revokeObjectURL" ->
               IF st.url = 0 THEN t
               ELSE [t EXCEPT !.urls[st.url].revoked = @ + 1]
          [] OTHER -> t

\* the calls of `steps` from the k-th on, in order, until the one named
\* `fault` throws (a call that throws has no effect)
RECURSIVE RunFrom(_, _, _, _, _, _, _)
RunFrom(st, steps, k, fault, i, data, name) ==
    IF k > Len(steps) \/ steps[k] = fault THEN st
    ELSE RunFrom(Call(st, steps[k], i, data, name), steps, k + 1, fault,
                 i, data, name)

\* lines 89-92: the catch block
Catch(i) ==
    /\ logs' = Append(logs, i)
    /\ alerts' = Append(alerts, i)

\* lines 22-29 and 62-67: a click on "Download Transcript" calls
\* downloadTranscript, which issues the request and awaits the response
downloadTranscript ==
    /\ inv' = Append(inv, [pc |-> "await", response |-> "none",
                           data |-> <<>>, fault |-> "none", url |-> 0,
                           trace |-> <<>>])
    /\ requests' = Append(requests,
                          [by |-> Len(inv) + 1, method |-> "GET",
                           url |-> Endpoint(result.uid),
                           responseType |-> "blob"])
    /\ UNCHANGED <<result, tz, rendered, objectURLs, body, saves, alerts,
                   logs, uncaught>>

\* a faulty variant of Click: an in-flight guard, the button is dead while
\* a request is pending
ClickGuarded ==
    /\ Len(inv) < MaxClicks
    /\ \A i \in 1..Len(inv) : inv[i].pc # "await"
    /\ downloadTranscript

\* lines 22-29: the button has no guard of its own
Click ==
    /\ Len(inv) < MaxClicks
    /\ downloadTranscript

\* the only click of a behaviour that is about the file name
ClickOnce ==
    /\ inv = <<>>
    /\ downloadTranscript

\* lines 69-88, and 89-92 when a call throws: what invocation i does with
\* the response body `data`
Resolved(i, data, fault) ==
    LET st0 == [urls |-> objectURLs, body |-> body, saves |-> saves,
                url |-> 0, trace |-> <<>>]
        st  == RunFrom(st0, DownloadSteps, 1, fault, i, data,
                       Filename(result, tz))
    IN  /\ objectURLs' = st.urls
        /\ body' = st.body
        /\ saves' = st.saves
        /\ IF fault = "none"
           THEN /\ inv' = [inv EXCEPT ![i] =
                             [pc |-> "done", response |-> "ok",
                              data |-> data, fault |-> fault,
                              url |-> st.url, trace |-> st.trace]]
                /\ UNCHANGED <<logs, alerts>>
           ELSE /\ inv' = [inv EXCEPT ![i] =
                             [pc |-> "done", response |-> "ok",
                              data |-> data, fault |-> fault,
                              url |-> st.url,
                              trace |-> st.trace
                                          \o <<"console.error", "alert">>]]
                /\ Catch(i)

\* lines 64-67 and 89-92: what invocation i does when axios.get rejects
Rejected(i, kind) ==
    /\ inv' = [inv EXCEPT ![i] =
                 [pc |-> "done", response |-> kind, data |-> <<>>,
                  fault |-> "none", url |-> 0,
                  trace |-> <<"console.error", "alert">>]]
    /\ Catch(i)
    /\ UNCHANGED <<objectURLs, body, saves>>

\* a faulty variant of RespondOk: the datetime is validated and an
\* unparseable one throws, as Date.prototype.toISOString would
RespondOkStrict(i, data, fault) ==
    /\ inv[i].pc = "await"
    /\ IF result.datetime.kind = "invalid"
       THEN Rejected(i, "ok")
       ELSE Resolved(i, data, fault)
    /\ UNCHANGED <<result, tz, rendered, requests, uncaught>>

\* a faulty variant of RespondOk: the capitalized authority is written
\* back to the prop
RespondOkMutating(i, data, fault) ==
    /\ inv[i].pc = "await"
    /\ Resolved(i, data, fault)
    /\ result' = [result EXCEPT !.authority = Capitalize(@)]
    /\ UNCHANGED <<tz, rendered, requests, uncaught>>

\* lines 64-92: the request of invocation i resolved with the body `data`
RespondOk(i, data, fault) ==
    /\ inv[i].pc = "await"
    /\ Resolved(i, data, fault)
    /\ UNCHANGED <<result, tz, rendered, requests, uncaught>>

\* how a request fails: no response, a non-2xx status, a response axios
\* cannot read
Failures == {"network", "status", "malformed"}

\* a faulty variant of RespondFail: the error is logged and thrown again,
\* with no alert
RespondFailRethrow(i, kind) ==
    /\ inv[i].pc = "await"
    /\ inv' = [inv EXCEPT ![i] =
                 [pc |-> "done", response |-> kind, data |-> <<>>,
                  fault |-> "none", url |-> 0,
                  trace |-> <<"console.error">>]]
    /\ logs' = Append(logs, i)
    /\ uncaught' = uncaught \cup {i}
    /\ UNCHANGED <<result, tz, rendered, requests, objectURLs, body, saves,
                   alerts>>

\* lines 64-67 and 89-92: the request of invocation i was rejected
RespondFail(i, kind) ==
    /\ inv[i].pc = "await"
    /\ Rejected(i, kind)
    /\ UNCHANGED <<result, tz, rendered, requests, uncaught>>

\* lines 4-7: the card renders the computed highlightedSnippet
Render ==
    /\ rendered' = [shown |-> TRUE,
                    html |-> highlightedSnippet(result.snippet)]
    /\ UNCHANGED <<result, tz, inv, requests, objectURLs, body, saves,
                   alerts, logs, uncaught>>

----------------------------------------------------------------------------
(* The inputs *)

\* "council", "COUNCIL", "3rd ward", "" and "mcKay"
Authorities ==
    { <<"c", "o", "u", "n", "c", "i", "l">>,
      <<"C", "O", "U", "N", "C", "I", "L">>,
      <<"3", "r", "d", " ", "w", "a", "r", "d">>,
      <<>>,
      <<"m", "c", "K", "a", "y">> }

\* "Full Council Meeting - March"
FullCouncilMeetingMarch ==
    <<"F", "u", "l", "l", " ", "C", "o", "u", "n", "c", "i", "l", " ",
      "M", "e", "e", "t", "i", "n", "g", " ", "-", " ",
      "M", "a", "r", "c", "h">>
\* "Budget Review: Q3!!"
BudgetReviewQ3 ==
    <<"B", "u", "d", "g", "e", "t", " ", "R", "e", "v", "i", "e", "w", ":",
      " ", "Q", "3", "!", "!">>
\* "Planning - Committee Meeting June 2024": a dash between the first words
PlanningCommittee ==
    <<"P", "l", "a", "n", "n", "i", "n", "g", " ", "-", " ",
      "C", "o", "m", "m", "i", "t", "t", "e", "e", " ",
      "M", "e", "e", "t", "i", "n", "g", " ", "J", "u", "n", "e", " ",
      "2", "0", "2", "4">>
\* five words, the first two separated by a tab
TabbedTitle ==
    <<"a", "\t", "b", " ", "c", " ", "d", " ", "e">>
\* five words, single spaces
FiveWords ==
    <<"a", " ", "b", " ", "c", " ", "d", " ", "e">>
\* "!!! ???": nothing is left after sanitizing
OnlyPunctuation == <<"!", "!", "!", " ", "?", "?", "?">>

SampleTitles ==
    {FullCouncilMeetingMarch, BudgetReviewQ3, PlanningCommittee, TabbedTitle,
     FiveWords, OnlyPunctuation, <<>>}

TitleChars == {"a", "3", " ", "\t", "\n", "-"}
Titles == StringsUpTo(TitleChars, MaxTitleLen) \cup SampleTitles

SnippetChars == {"a", "[", "]", "\n"}
\* "a [b" and "the [budget] was [approved]"-like samples beside the
\* enumerated ones
SampleSnippets ==
    { <<"a", " ", "[", "b">>,
      <<"a", " ", "[", "b", "]", " ", "[", "c", "d", "]", ".">> }
Snippets == StringsUpTo(SnippetChars, MaxSnippetLen) \cup SampleSnippets

Dates == {<<2023, 12, 31>>, <<2024, 1, 1>>, <<2024, 2, 29>>, <<2024, 3, 5>>,
          <<2024, 10, 9>>}
Hours == {0, 10, 23}
InvalidDatetime == [kind |-> "invalid", y |-> 0, m |-> 0, d |-> 0, hh |-> 0]
Datetimes ==
    {[kind |-> k, y |-> ymd[1], m |-> ymd[2], d |-> ymd[3], hh |-> h] :
        k \in {"utc", "local"}, ymd \in Dates, h \in Hours}
    \cup {[kind |-> "date", y |-> ymd[1], m |-> ymd[2], d |-> ymd[3],
           hh |-> 0] : ymd \in Dates}
    \cup {InvalidDatetime}

\* hours east of UTC
TimeZones == {-8, 0, 9}

\* response bodies
Bodies == {<<72, 105>>, <<>>}

\* the end-to-end example: authority "council", uid "abc123",
\* datetime "2024-03-05T10:00:00Z"
DefaultResult ==
    [uid        |-> "abc123",
     title      |-> FullCouncilMeetingMarch,
     snippet    |-> <<"a", " ", "[", "b", "]", " ", "[", "c", "d", "]", ".">>,
     datetime   |-> [kind |-> "utc", y |-> 2024, m |-> 3, d |-> 5, hh |-> 10],
     start_time |-> "10:00",
     link       |-> "https://video.example/abc123",
     authority  |-> <<"c", "o", "u", "n", "c", "i", "l">>]

\* the props the card is mounted with where the claims are about the
\* download itself
Results ==
    {[DefaultResult EXCEPT !.datetime = dt, !.uid = u] :
        dt \in {DefaultResult.datetime, InvalidDatetime},
        u \in {"abc123", "xyz789"}}

NotRendered == [shown |-> FALSE, html |-> <<>>]

\* the state once the card is constructed with the prop r in the zone z
Mounted(r, z) ==
    /\ result = r
    /\ tz = z
    /\ rendered = NotRendered
    /\ inv = <<>>
    /\ requests = <<>>
    /\ objectURLs = <<>>
    /\ body = {}
    /\ saves = <<>>
    /\ alerts = <<>>
    /\ logs = <<>>
    /\ uncaught = {}

Init == \E r \in Results : Mounted(r, 0)

Next ==
    \/ Render
    \/ Click
    \/ \E i \in 1..Len(inv), data \in Bodies, fault \in Faults :
          RespondOk(i, data, fault)
    \/ \E i \in 1..Len(inv), kind \in Failures : RespondFail(i, kind)

Spec == Init /\ [][Next]_vars

\* the file name: every title with the default authority and datetime, and
\* every authority, datetime and zone with two of the sample titles
InitFilename ==
    \/ \E t \in Titles : Mounted([DefaultResult EXCEPT !.title = t], 0)
    \/ \E t \in {FullCouncilMeetingMarch, OnlyPunctuation},
          a \in Authorities, dt \in Datetimes, z \in TimeZones :
          Mounted([DefaultResult EXCEPT !.title = t, !.authority = a,
                                        !.datetime = dt], z)

NextFilename ==
    \/ ClickOnce
    \/ \E i \in 1..Len(inv), data \in Bodies, fault \in Faults :
          RespondOk(i, data, fault)
    \/ \E i \in 1..Len(inv), kind \in Failures : RespondFail(i, kind)

SpecFilename == InitFilename /\ [][NextFilename]_vars

\* the snippet: every snippet, rendered
InitHighlight ==
    \E sn \in Snippets : Mounted([DefaultResult EXCEPT !.snippet = sn], 0)

NextHighlight == Render

SpecHighlight == InitHighlight /\ [][NextHighlight]_vars

----------------------------------------------------------------------------
(* What the properties below are stated with *)

Invocations == 1..Len(inv)
Done(i) == inv[i].pc = "done"
\* the request succeeded and none of the browser calls threw
Succeeded(i) == Done(i) /\ inv[i].response = "ok" /\ inv[i].fault = "none"
RequestFailed(i) == Done(i) /\ inv[i].response \in Failures

SavesBy(i) == {k \in 1..Len(saves) : saves[k].by = i}
AlertsBy(i) == {k \in 1..Len(alerts) : alerts[k] = i}
LogsBy(i) == {k \in 1..Len(logs) : logs[k] = i}
RequestsBy(i) == {k \in 1..Len(requests) : requests[k].by = i}
URLsBy(i) == {u \in 1..Len(objectURLs) : objectURLs[u].by = i}

\* the positions of a call in the trace of an invocation
Calls(i, step) == {k \in 1..Len(inv[i].trace) : inv[i].trace[k] = step}

\* the words of a string: its maximal runs of non-whitespace characters
RECURSIVE WordsFrom(_, _, _)
WordsFrom(t, i, cur) ==
    IF i > Len(t) THEN (IF cur = <<>> THEN <<>> ELSE <<cur>>)
    ELSE IF t[i] \in WhiteSpace
    THEN (IF cur = <<>> THEN <<>> ELSE <<cur>>) \o WordsFrom(t, i + 1, <<>>)
    ELSE WordsFrom(t, i + 1, Append(cur, t[i]))

Words(t) == WordsFrom(t, 1, <<>>)

\* letters, digits and whitespace only
LettersDigitsSpaces(t) ==
    SelectSeq(t, LAMBDA c : c \in Lower \cup Upper \cup Digits \cup WhiteSpace)

\* the first three words of the title without its punctuation, concatenated
FirstThreeWords(t) == Join(Slice0(Words(LettersDigitsSpaces(t)), 3))

\* the first "]" after position j - 1, whatever stands before it; 0 if none
RECURSIVE NextClose(_, _)
NextClose(s, j) ==
    IF j > Len(s) THEN 0
    ELSE IF s[j] = "]" THEN j
    ELSE NextClose(s, j + 1)

\* every "[", shortest run of any characters, "]" replaced by the wrapped
\* run, left to right
RECURSIVE BracketsReplaced(_, _)
BracketsReplaced(s, i) ==
    IF i > Len(s) THEN <<>>
    ELSE IF s[i] = "[" /\ NextClose(s, i + 1) # 0
    THEN <<SpanOpen>> \o SubSeq(s, i + 1, NextClose(s, i + 1) - 1)
           \o <<SpanClose>> \o BracketsReplaced(s, NextClose(s, i + 1) + 1)
    ELSE <<s[i]>> \o BracketsReplaced(s, i + 1)

\* the calendar, stated directly
IsLeap(y) == (y % 4 = 0 /\ y % 100 # 0) \/ y % 400 = 0
DaysInMonth(y, m) ==
    IF m = 2 THEN (IF IsLeap(y) THEN 29 ELSE 28)
    ELSE IF m \in {4, 6, 9, 11} THEN 30 ELSE 31
DayBefore(c) ==
    IF c.d > 1 THEN [c EXCEPT !.d = @ - 1]
    ELSE IF c.m > 1
    THEN [y |-> c.y, m |-> c.m - 1, d |-> DaysInMonth(c.y, c.m - 1)]
    ELSE [y |-> c.y - 1, m |-> 12, d |-> 31]
DayAfter(c) ==
    IF c.d < DaysInMonth(c.y, c.m) THEN [c EXCEPT !.d = @ + 1]
    ELSE IF c.m < 12 THEN [y |-> c.y, m |-> c.m + 1, d |-> 1]
    ELSE [y |-> c.y + 1, m |-> 1, d |-> 1]

\* the local calendar date, in a zone fewer than 24 hours from UTC, of the
\* instant a parseable datetime names
LocalDateOf(dt, zone) ==
    LET c == [y |-> dt.y, m |-> dt.m, d |-> dt.d]
    IN  IF dt.kind = "local" THEN c
        ELSE IF dt.hh + zone < 0 THEN DayBefore(c)
        ELSE IF dt.hh + zone >= 24 THEN DayAfter(c)
        ELSE c

TwoDigits(n) == <<DigitChars[(n \div 10) + 1], DigitChars[(n % 10) + 1]>>
FourDigits(n) == TwoDigits(n \div 100) \o TwoDigits(n % 100)
\* YYYY-MM-DD
IsoDate(c) ==
    FourDigits(c.y) \o <<"-">> \o TwoDigits(c.m) \o <<"-">> \o TwoDigits(c.d)

\* a with its first character uppercased and nothing else changed
FirstUpper(a) ==
    [k \in 1..Len(a) |-> IF k = 1 THEN toUpperCase(a[1]) ELSE a[k]]

Council == <<"c", "o", "u", "n", "c", "i", "l">>
COUNCIL == <<"C", "O", "U", "N", "C", "I", "L">>

IsPrefix(p, s) == Len(p) <= Len(s) /\ SubSeq(s, 1, Len(p)) = p

----------------------------------------------------------------------------
(* The properties *)

\* C1: the title segment of every file name saved is the first three
\* whitespace-separated words of the title stripped of everything but
\* letters, digits and whitespace, concatenated (also across two adjacent
\* spaces left by stripped punctuation, tabs and newlines).
C1_TitleSegmentIsFirstThreeWords ==
    \A k \in 1..Len(saves) :
        Succeeded(saves[k].by) =>
          saves[k].download =
            Template(Capitalize(result.authority),
                     FirstThreeWords(result.title),
                     DateStr(result.datetime, tz))

\* C2: once an invocation has finished, every object URL it created has
\* been revoked exactly once, whichever call failed in between; and no URL
\* is revoked before the click or twice.
C2_EveryURLRevokedOnce ==
    \A i \in Invocations :
        Done(i) =>
            /\ \A u \in URLsBy(i) : objectURLs[u].revoked = 1
            /\ \A r \in Calls(i, "revokeObjectURL") :
                  \E c \in Calls(i, "click") : c < r

\* C3: an invocation whose request failed has not thrown to its caller, has
\* created no object URL and triggered no save, has logged the error once,
\* raised exactly one alert and issued no request beyond its first.
C3_FailedRequestIsHandled ==
    \A i \in Invocations :
        RequestFailed(i) =>
            /\ i \notin uncaught
            /\ URLsBy(i) = {}
            /\ SavesBy(i) = {}
            /\ Cardinality(LogsBy(i)) = 1
            /\ Cardinality(AlertsBy(i)) = 1
            /\ Cardinality(RequestsBy(i)) = 1
            /\ ~ \E k \in 1..Len(inv[i].trace) :
                    inv[i].trace[k] \in {"createObjectURL", "click"}

C3_Witness ==
    \E i \in Invocations :
        /\ RequestFailed(i)
        /\ inv[i].response = "network"
        /\ alerts = <<i>>

\* C4: what is rendered is the snippet with every "[", shortest run of
\* characters, "]" replaced by the run in the highlight span, left to right
\* in one pass; a snippet without a matched pair is rendered unchanged.
C4_EveryBracketPairHighlighted ==
    rendered.shown => rendered.html = BracketsReplaced(result.snippet, 1)

\* C5: with a parseable datetime, every file name saved is
\* {A}-{T}-[{D}].txt: A the authority with only its first character
\* uppercased, T the short title, D the local calendar date of the parsed
\* instant as YYYY-MM-DD, month 1-based, month and day zero-padded.
C5_FilenameFollowsTemplate ==
    \A k \in 1..Len(saves) :
        result.datetime.kind # "invalid" =>
            /\ saves[k].download =
                  FirstUpper(result.authority) \o <<"-">>
                    \o ShortTitle(result.title) \o <<"-", "[">>
                    \o IsoDate(LocalDateOf(result.datetime, tz))
                    \o <<"]", ".", "t", "x", "t">>
            /\ result.authority = Council =>
                  IsPrefix(<<"C", "o", "u", "n", "c", "i", "l", "-">>,
                           saves[k].download)
            /\ result.authority = COUNCIL =>
                  IsPrefix(<<"C", "O", "U", "N", "C", "I", "L", "-">>,
                           saves[k].download)

\* a save of a UTC datetime whose local date falls in the next year, under
\* a lower-case authority
C5_Witness ==
    /\ saves # <<>>
    /\ result.datetime = [kind |-> "utc", y |-> 2023, m |-> 12, d |-> 31,
                          hh |-> 23]
    /\ tz = 9
    /\ result.authority = Council

\* C6: when the request succeeded (and no browser call threw), an
\* unparseable datetime or a title without any word still gives exactly one
\* save and no alert; and with a title without any word the name is the
\* capitalized authority, a double hyphen and the bracketed date.
C6_MalformedDataStillSaves ==
    \A i \in Invocations :
        (/\ Succeeded(i)
         /\ \/ result.datetime.kind = "invalid"
            \/ Words(LettersDigitsSpaces(result.title)) = <<>>)
        => /\ Cardinality(SavesBy(i)) = 1
           /\ AlertsBy(i) = {}
           /\ Words(LettersDigitsSpaces(result.title)) = <<>> =>
                 \A k \in SavesBy(i) :
                     saves[k].download =
                         Capitalize(result.authority) \o <<"-", "-", "[">>
                           \o DateStr(result.datetime, tz)
                           \o <<"]", ".", "t", "x", "t">>

\* a finished download of a result whose title is punctuation only and
\* whose datetime does not parse
C6_Witness ==
    /\ \E i \in Invocations : Succeeded(i)
    /\ result.title = OnlyPunctuation
    /\ result.datetime.kind = "invalid"
    /\ result.authority = Council

\* C7: every click issues exactly one request and nothing holds a click
\* back while requests are in flight; and every invocation ends on its own:
\* a successful one with one save of its own response under its own object
\* URL and no alert, a failed one with one alert and no save.
C7_InvocationsAreIndependent ==
    /\ Len(requests) = Len(inv)
    /\ \A i \in Invocations : RequestsBy(i) = {i}
    /\ Len(inv) < MaxClicks => ENABLED Click
    /\ \A i \in Invocations :
          /\ Succeeded(i) =>
                /\ Cardinality(SavesBy(i)) = 1
                /\ Cardinality(URLsBy(i)) = 1
                /\ AlertsBy(i) = {}
                /\ \A k \in SavesBy(i) :
                      /\ saves[k].href \in URLsBy(i)
                      /\ saves[k].bytes = inv[i].data
          /\ RequestFailed(i) =>
                /\ Cardinality(AlertsBy(i)) = 1
                /\ SavesBy(i) = {}
    /\ \A u, v \in 1..Len(objectURLs) :
          objectURLs[u].by = objectURLs[v].by => u = v

\* two requests were in flight at once: the second click's was answered
\* and saved while the first click's is still pending
C7_Witness ==
    /\ Len(inv) >= 2
    /\ inv[1].pc = "await"
    /\ Succeeded(2)
    /\ saves # <<>> /\ saves[1].by = 2
    /\ Len(requests) = 2

\* C8: a save is triggered only by an invocation whose GET of
\* {API_BASE}/meetings/download_transcript/{uid} succeeded; it is made from
\* an object URL that invocation created just before and, for an
\* invocation in which no call threw, has released by the time it ends; and
\* the file holds exactly the bytes of the response body under the name of
\* the file name algorithm.
C8_SaveFollowsSuccessfulRequest ==
    \A k \in 1..Len(saves) :
        LET i == saves[k].by
        IN  /\ i \in Invocations
            /\ Done(i) /\ inv[i].response = "ok"
            /\ requests[i].by = i
            /\ requests[i].method = "GET"
            /\ requests[i].url =
                  <<"API_BASE", "/meetings/download_transcript/", result.uid>>
            /\ saves[k].href \in URLsBy(i)
            /\ saves[k].bytes = inv[i].data
            /\ objectURLs[saves[k].href].blob = inv[i].data
            /\ saves[k].download = Filename(result, tz)
            /\ \E c \in Calls(i, "createObjectURL"), a \in Calls(i, "click") :
                  /\ c < a
                  /\ \A r \in Calls(i, "revokeObjectURL") : a < r
            /\ inv[i].fault = "none" =>
                  /\ objectURLs[saves[k].href].revoked = 1
                  /\ inv[i].trace = <<"createObjectURL", "appendChild",
                                      "click", "remove", "revokeObjectURL">>

\* a finished download that saved a non-empty body
C8_Witness ==
    \E k \in 1..Len(saves) :
        /\ saves[k].bytes = <<72, 105>>
        /\ Succeeded(saves[k].by)
        /\ objectURLs[saves[k].href].revoked = 1

\* C9: no step of the card (rendering, a click, a successful or a failed
\* download) changes a field of the bound SearchResult.
C9_ResultIsOnlyRead == [][result' = result]_vars

\* the card was rendered, one download succeeded and one failed
C9_Witness ==
    /\ rendered.shown
    /\ \E i \in Invocations : Succeeded(i)
    /\ \E i \in Invocations : RequestFailed(i)

\* C10: every finished invocation has either triggered one save and raised
\* no alert, or raised one alert and triggered no save, also when a call
\* after the click throws; and a successful one has removed its anchor
\* from the document body.
C10_SaveXorAlert ==
    \A i \in Invocations :
        Done(i) =>
            /\ \/ Cardinality(SavesBy(i)) = 1 /\ AlertsBy(i) = {}
               \/ SavesBy(i) = {} /\ Cardinality(AlertsBy(i)) = 1
            /\ SavesBy(i) # {} => i \notin body

============================================================================
